---- MODULE Spec2Model ----
(***************************************************************************)
(* Model of attention (src/src/main.rs): a helper that launches an         *)
(* application, waits for its window and then polls either the window's    *)
(* fullscreen state or the application's audio state, disabling display    *)
(* power management while the monitored condition holds.                   *)
(*                                                                         *)
(* Text is modelled as sequences of one-character strings, so that         *)
(* to_lowercase and contains are computed as the code computes them.       *)
(* Every external command (wmctrl, xprop, pactl, notify-send, xset) is one *)
(* step of the program; the window list is environment state that changes  *)
(* between the program's steps.                                            *)
(***************************************************************************)
EXTENDS Integers, Sequences, FiniteSets, TLC

(* ---------------------------------------------------------------- text *)

UpperAlpha ==
    <<"A", "B", "C", "D", "E", "F", "G", "H", "I", "J", "K", "L", "M",
      "N", "O", "P", "Q", "R", "S", "T", "U", "V", "W", "X", "Y", "Z">>

LowerAlpha ==
    <<"a", "b", "c", "d", "e", "f", "g", "h", "i", "j", "k", "l", "m",
      "n", "o", "p", "q", "r", "s", "t", "u", "v", "w", "x", "y", "z">>

Digits ==
    <<"0", "1", "2", "3", "4", "5", "6", "7", "8", "9">>

NL ==
    <<"\n">>

SP ==
    <<" ">>

\* char::to_lowercase on the characters that occur in the command outputs
LowerMap ==
    [c \in {UpperAlpha[i] : i \in 1..26} |->
        LowerAlpha[CHOOSE i \in 1..26 : UpperAlpha[i] = c]]

LowerChar(c) ==
    IF c \in DOMAIN LowerMap THEN LowerMap[c] ELSE c

\* str::to_lowercase
to_lowercase(s) ==
    [i \in 1..Len(s) |-> LowerChar(s[i])]

\* str::contains: pat occurs in s as a contiguous substring
contains(s, pat) ==
    \E i \in 0..(Len(s) - Len(pat)) :
        \A j \in 1..Len(pat) : s[i + j] = pat[j]

\* u32::to_string
RECURSIVE to_string(_)
to_string(n) ==
    IF n < 10 THEN <<Digits[n + 1]>>
    ELSE to_string(n \div 10) \o <<Digits[(n % 10) + 1]>>

\* str::lines on a text built from lines each ended by a newline
RECURSIVE Concat(_)
Concat(ls) ==
    IF ls = <<>> THEN <<>> ELSE Head(ls) \o NL \o Concat(Tail(ls))

\* first whitespace-separated token of a line (split_whitespace().next())
RECURSIVE FirstToken(_)
FirstToken(line) ==
    IF line = <<>> \/ Head(line) = " " THEN <<>>
    ELSE <<Head(line)>> \o FirstToken(Tail(line))

\* [T]::join(" ") on the trailing command-line tokens
RECURSIVE join(_)
join(toks) ==
    IF toks = <<>> THEN <<>>
    ELSE IF Len(toks) = 1 THEN toks[1]
    ELSE toks[1] \o SP \o join(Tail(toks))

(* ------------------------------------------------------------ bounds *)

\* number of tracking samples whose history is recorded
MaxSamples ==
    5

(* ------------------------------------------------- command-line inputs *)

fo ==
    <<"f", "o">>

Fo ==
    <<"F", "o">>

\* command lines the program is started with: args[1] is the program name,
\* args[2] the flag, args[3] the application, the rest trailing tokens
Argv ==
    { <<"attention">>,
      <<"attention", "--track-audio">>,
      <<"attention", "--bogus", fo>>,
      <<"attention", "--track-audio", fo>>,
      <<"attention", "--track-fullscreen", fo>>,
      <<"attention", "--track-fullscreen", Fo>>,
      <<"attention", "--track-audio", fo, <<"a">>, <<"b">>>> }

\* process ids the operating system may hand out to the launched child
Pids ==
    {7, 12}

\* outcome of running an external command: ran and exited zero, ran and
\* exited non-zero, or could not be spawned
Outcomes ==
    {"ok", "nonzero", "unspawnable"}

\* mutant: the exit status of the command is not looked at
Failed_OnlyUnspawnable(o) ==
    o = "unspawnable"

\* the command makes the caller panic: .expect() on a command that could
\* not be spawned, or the test of output.status.success()
Failed(o) ==
    o # "ok"

\* what a command leaves in the log of the tick: its name when it ran and
\* exited zero, the failure otherwise
Event(cmd, failure, o) ==
    IF o = "ok" THEN cmd ELSE failure

(* --------------------------------------------------------- the windows *)

\* One line of `wmctrl -lp`: window id, owning pid, title.
WindowLine(id, p, title) ==
    id \o SP \o to_string(p) \o SP \o title

\* The windows the desktop may show.  Window 1 is the main window of the
\* launched application (its title reported in upper case), window 2 is a
\* second window of the same process whose title does not name the
\* application, window 3 belongs to another process (pid 3) and names the
\* application in its title.
MainTitle ==
    <<"F", "O">>

Window(i, p) ==
    CASE i = 1 -> WindowLine(<<"0", "x", "a">>, p, MainTitle)
      [] i = 2 -> WindowLine(<<"0", "x", "b">>, p, <<"x">>)
      [] i = 3 -> WindowLine(<<"0", "x", "c">>, 3, fo)

RECURSIVE LinesOf(_, _, _)
LinesOf(S, p, i) ==
    IF i > 3 THEN <<>>
    ELSE (IF i \in S THEN <<Window(i, p)>> ELSE <<>>) \o LinesOf(S, p, i + 1)

(* ------------------------------------------- outputs of xprop and pactl *)

\* is_window_fullscreen, line 124, before .to_lowercase()
property_text ==
    <<"_", "N", "E", "T", "_", "W", "M", "_", "S", "T", "A", "T",
      "E", "(", "A", "T", "O", "M", ")", " ", "=", " ", "_", "N",
      "E", "T", "_", "W", "M", "_", "S", "T", "A", "T", "E", "_",
      "F", "U", "L", "L", "S", "C", "R", "E", "E", "N">>

\* is_playing_audio, line 145
stream_is_live ==
    <<"s", "t", "r", "e", "a", "m", ".", "i", "s", "-", "l", "i",
      "v", "e", " ", "=", " ", "\"", "t", "r", "u", "e", "\"">>

\* is_playing_audio, line 146
stream_not_paused ==
    <<"c", "o", "r", "k", "e", "d", ":", " ", "n", "o">>

\* what `xprop -id <window>` may print about the window state: no state,
\* fullscreen, focused only, or fullscreen listed after another atom
XpropOutputs ==
    { <<"_", "N", "E", "T", "_", "W", "M", "_", "S", "T", "A", "T",
        "E", "(", "A", "T", "O", "M", ")", " ", "=", " ">> \o NL,
      property_text \o NL,
      <<"_", "N", "E", "T", "_", "W", "M", "_", "S", "T", "A", "T",
        "E", "(", "A", "T", "O", "M", ")", " ", "=", " ", "_", "N",
        "E", "T", "_", "W", "M", "_", "S", "T", "A", "T", "E", "_",
        "F", "O", "C", "U", "S", "E", "D">> \o NL,
      <<"_", "N", "E", "T", "_", "W", "M", "_", "S", "T", "A", "T",
        "E", "(", "A", "T", "O", "M", ")", " ", "=", " ", "_", "N",
        "E", "T", "_", "W", "M", "_", "S", "T", "A", "T", "E", "_",
        "A", "B", "O", "V", "E", ",", " ", "_", "N", "E", "T", "_",
        "W", "M", "_", "S", "T", "A", "T", "E", "_", "F", "U", "L",
        "L", "S", "C", "R", "E", "E", "N">> \o NL }

\* One sink input of `pactl list sink-inputs`: paused flag, application
\* name, live flag.
SinkInput(corked, name, live) ==
    <<"C", "o", "r", "k", "e", "d", ":", " ">> \o
        (IF corked THEN <<"y", "e", "s">> ELSE <<"n", "o">>) \o NL \o
    <<"a", "p", "p", "l", "i", "c", "a", "t", "i", "o", "n", ".",
      "n", "a", "m", "e", " ", "=", " ", "\"">> \o
        name \o <<"\"">> \o NL \o
    <<"s", "t", "r", "e", "a", "m", ".", "i", "s", "-", "l", "i",
      "v", "e", " ", "=", " ", "\"">> \o
        (IF live THEN <<"t", "r", "u", "e">>
                 ELSE <<"f", "a", "l", "s", "e">>) \o <<"\"">> \o NL

\* The sink inputs that may exist.  Stream 1 is the application's, live
\* but paused; stream 2 is another program's, live and playing; stream 3 is
\* the application's, live and playing.
StreamAttr(i) ==
    CASE i = 1 -> [corked |-> TRUE, name |-> MainTitle, live |-> TRUE]
      [] i = 2 -> [corked |-> FALSE, name |-> <<"x">>, live |-> TRUE]
      [] i = 3 -> [corked |-> FALSE, name |-> MainTitle, live |-> TRUE]

Stream(i) ==
    SinkInput(StreamAttr(i).corked, StreamAttr(i).name, StreamAttr(i).live)

RECURSIVE StreamsText(_, _)
StreamsText(S, i) ==
    IF i > 3 THEN <<>>
    ELSE (IF i \in S THEN Stream(i) ELSE <<>>) \o StreamsText(S, i + 1)

\* the sets of sink inputs `pactl list sink-inputs` may report
AudioScenes ==
    SUBSET {1, 2, 3}

VARIABLES
    pc,                \* control point of main
    args,              \* env::args()
    track_audio,       \* main.rs:251
    track_fullscreen,  \* main.rs:252
    app_name,          \* main.rs:260
    app_args,          \* main.rs:261, <<>> for None, <<s>> for Some(s)
    child,             \* the Command spawned by launch_app
    pid,               \* main.rs:275, 0 before the launch
    window_id,         \* main.rs:283
    state,             \* the State record, main.rs:27-31
    win,               \* main window of the application: none, open, closed
    others,            \* the other windows currently listed, subset of {2,3}
    act,               \* actuator in progress: "off", "on" or "none"
    ret,               \* where the actuator returns to: "tick" or "exit"
    help_printed,      \* help text written to standard output
    tickLog,           \* calls, commands and assignments of the current tick
    sample,            \* sample taken in the current tick: none, true, false
    lastPower,         \* last successful xset call: none, -dpms, +dpms
    samples,           \* recorded samples of the tracked condition
    rec,               \* the current tick's sample is in samples
    effective,         \* recorded actuator calls that changed screen blanking
    notifs,            \* notifications sent by recorded actuator calls
    polls              \* parity of the polls the discovery loop has made

vars ==
    <<pc, args, track_audio, track_fullscreen, app_name, app_args, child,
      pid, window_id, state, win, others, act, ret, help_printed, tickLog,
      sample, lastPower, samples, rec, effective, notifs, polls>>

progVars ==
    <<args, track_audio, track_fullscreen, app_name, app_args, child, pid,
      window_id>>

histVars ==
    <<sample, samples, rec, effective, notifs, polls>>

envVars ==
    <<win, others>>

\* State::new()
StateNew ==
    [last_screen_blanking_state |-> "On",
     last_fullscreen_state |-> "NotFullscreen",
     last_track_audio_state |-> "Off"]

Init ==
    /\ pc = "main"
    /\ args \in Argv
    /\ track_audio = FALSE
    /\ track_fullscreen = FALSE
    /\ app_name = <<>>
    /\ app_args = <<>>
    /\ child = <<>>
    /\ pid = 0
    /\ window_id = <<>>
    /\ state = StateNew
    /\ win = "none"
    /\ others = {}
    /\ act = "none"
    /\ ret = "none"
    /\ help_printed = FALSE
    /\ tickLog = <<>>
    /\ sample = "none"
    /\ lastPower = "none"
    /\ samples = <<>>
    /\ rec = FALSE
    /\ effective = 0
    /\ notifs = 0
    /\ polls = 0

\* the lines `wmctrl -lp` prints, and its whole output
Listed ==
    LinesOf((IF win = "open" THEN {1} ELSE {}) \cup others, pid, 1)

WmctrlOutput ==
    Concat(Listed)

(* ------------------------------------------------------ the environment *)

\* the application's main window shows up once the process runs
WindowOpens ==
    /\ pid # 0
    /\ win = "none"
    /\ win' = "open"
    /\ UNCHANGED <<pc, progVars, state, others, act, ret, help_printed,
                   tickLog, lastPower, histVars>>

\* the application's main window closes, for good
WindowCloses ==
    /\ win = "open"
    /\ win' = "closed"
    /\ UNCHANGED <<pc, progVars, state, others, act, ret, help_printed,
                   tickLog, lastPower, histVars>>

\* another window appears or disappears; window 2 belongs to the child
OtherWindowChanges ==
    /\ \E i \in {2, 3} :
         /\ i = 2 => pid # 0
         /\ others' = IF i \in others THEN others \ {i} ELSE others \cup {i}
    /\ UNCHANGED <<pc, progVars, state, win, act, ret, help_printed,
                   tickLog, lastPower, histVars>>

(* ---------------------------------------------------------------- main *)

\* main, lines 250-272: argument parsing
ParseFlagOk(flag) ==
    flag \in {"--track-audio", "--track-fullscreen"}

main_args ==
    /\ pc = "main"
    /\ IF Len(args) < 3
       THEN /\ help_printed' = TRUE
            /\ pc' = "panic"
            /\ UNCHANGED <<track_audio, track_fullscreen, app_name, app_args>>
       ELSE /\ app_name' = args[3]
            /\ app_args' = IF Len(args) > 3
                           THEN <<join(SubSeq(args, 4, Len(args)))>>
                           ELSE <<>>
            /\ help_printed' = help_printed
            /\ IF ParseFlagOk(args[2])
               THEN /\ track_audio' =
                          (IF args[2] = "--track-audio"
                           THEN ~track_audio ELSE track_audio)
                    /\ track_fullscreen' =
                          (IF args[2] = "--track-fullscreen"
                           THEN ~track_fullscreen ELSE track_fullscreen)
                    /\ pc' = "launch"
               ELSE /\ pc' = "panic"
                    /\ UNCHANGED <<track_audio, track_fullscreen>>
    /\ UNCHANGED <<args, child, pid, window_id, state, envVars, act, ret,
                   tickLog, lastPower, histVars>>

\* the argument vector launch_app hands to Command: always one .arg(args)
LaunchArgv(a) ==
    IF a = <<>> THEN <<(<<>>)>> ELSE <<a[1]>>

\* main, lines 277-281, and launch_app
launch_app ==
    /\ pc = "launch"
    /\ \E o \in {"ok", "unspawnable"} :
         IF o = "ok"
         THEN /\ \E p \in Pids : pid' = p
              /\ child' = <<[program |-> app_name, argv |-> LaunchArgv(app_args)]>>
              /\ pc' = "wait"
         ELSE /\ pc' = "panic"
              /\ UNCHANGED <<pid, child>>
    /\ UNCHANGED <<args, track_audio, track_fullscreen, app_name, app_args,
                   window_id, state, envVars, act, ret, help_printed,
                   tickLog, lastPower, histVars>>

\* wait_for_window_to_show_up, line 76: the test applied to one line
LineMatches(line, p, name) ==
    contains(line, to_string(p)) /\ contains(line, name)

\* the lines of the lower-cased output that pass the test, in order
MatchingLines(out, p, name) ==
    SelectSeq(out, LAMBDA l : LineMatches(to_lowercase(l), p, name))

\* one iteration of the loop of wait_for_window_to_show_up
wait_for_window_to_show_up ==
    /\ pc = "wait"
    /\ \E o \in Outcomes :
         IF ~Failed(o)
         THEN LET hits == MatchingLines(Listed, pid, app_name)
              IN  IF hits # <<>>
                  THEN /\ window_id' = FirstToken(to_lowercase(hits[1]))
                       /\ pc' = "is_window_closed"
                       /\ polls' = 0
                  ELSE /\ pc' = "wait"
                       /\ polls' = 1 - polls
                       /\ UNCHANGED window_id
         ELSE /\ pc' = "panic"
              /\ polls' = 0
              /\ UNCHANGED window_id
    /\ UNCHANGED <<args, track_audio, track_fullscreen, app_name, app_args,
                   child, pid, state, envVars, act, ret, help_printed,
                   tickLog, lastPower, sample, samples, rec, effective,
                   notifs>>

(* ----------------------------------------------------------- the probes *)

\* is_window_closed, lines 100-101: the window is taken to be still there
StillListed(out, p, name) ==
    LET stdout == to_lowercase(out)
    IN  contains(stdout, to_string(p)) /\ contains(stdout, name)

\* is_window_fullscreen, lines 123-128
is_window_fullscreen(out) ==
    LET stdout == to_lowercase(out)
        property == to_lowercase(property_text)
    IN  contains(stdout, property)

\* is_playing_audio, lines 144-150
is_playing_audio(out, name) ==
    LET stdout == to_lowercase(out)
    IN  /\ contains(stdout, name)
        /\ contains(stdout, stream_is_live)
        /\ contains(stdout, stream_not_paused)

(* -------------------------------------------------------- the actuator *)

\* turn_off_screen_blanking, line 158
TurnOffGuard(blanking) ==
    blanking = "On"

\* mutant: the restore runs whatever the stored value is
TurnOnGuard_Always(blanking) ==
    TRUE

\* mutant: the restore tests for the wrong value
TurnOnGuard_Inverted(blanking) ==
    blanking = "On"

\* turn_on_screen_blanking, line 188
TurnOnGuard(blanking) ==
    blanking = "Off"

\* mutant: the loop is left after any actuator call
ReturnTo_AlwaysExit(back) ==
    "exit"

\* where control goes when the actuator returns: to the next iteration of
\* the loop of main (lines 292 and 285), or out of is_window_closed with
\* true (line 107), which ends the loop and main
ReturnTo(back) ==
    IF back = "tick" THEN "is_window_closed" ELSE "exit"

\* name of the actuator function for a direction
ActuatorName(kind) ==
    IF kind = "off" THEN "turn_off_screen_blanking"
    ELSE "turn_on_screen_blanking"

\* Entry of turn_off_screen_blanking (kind "off") or turn_on_screen_blanking
\* (kind "on") called with the log so far; back says where the caller
\* continues: "tick" for the next iteration of the loop, "exit" for the
\* return of is_window_closed with true.
CallActuator(kind, back, log) ==
    /\ tickLog' = Append(log, ActuatorName(kind))
    /\ IF (IF kind = "off"
           THEN TurnOffGuard(state'.last_screen_blanking_state)
           ELSE TurnOnGuard(state'.last_screen_blanking_state))
       THEN /\ pc' = "notify"
            /\ act' = kind
            /\ ret' = back
       ELSE /\ pc' = ReturnTo(back)
            /\ act' = "none"
            /\ ret' = "none"

\* the notify-send command of either actuator, lines 161-170 and 191-200
notify_send ==
    /\ pc = "notify"
    /\ \E o \in Outcomes :
         IF ~Failed(o)
         THEN /\ tickLog' = Append(tickLog,
                                Event("notify-send", "notify-send failed", o))
              /\ notifs' = IF rec /\ ret = "tick" THEN notifs + 1 ELSE notifs
              /\ pc' = "xset"
         ELSE /\ tickLog' = Append(tickLog, "notify-send failed")
              /\ pc' = "panic"
              /\ UNCHANGED notifs
    /\ UNCHANGED <<progVars, state, envVars, act, ret, help_printed,
                   lastPower, sample, samples, rec, effective, polls>>

\* mutant: both actuators store Off
BlankingAfter_AlwaysOff(kind) ==
    "Off"

\* the value the actuator stores after its xset call, lines 183 and 213
BlankingAfter(kind) ==
    IF kind = "off" THEN "Off" ELSE "On"

\* the xset command of either actuator and the assignment that follows it,
\* lines 172-183 and 202-213
xset ==
    /\ pc = "xset"
    /\ \E o \in Outcomes :
         IF ~Failed(o)
         THEN /\ lastPower' = IF act = "off" THEN "-dpms" ELSE "+dpms"
              /\ state' = [state EXCEPT
                             !.last_screen_blanking_state = BlankingAfter(act)]
              /\ tickLog' = tickLog \o
                    <<Event(IF act = "off" THEN "xset -dpms"
                            ELSE "xset +dpms", "xset failed", o),
                      IF BlankingAfter(act) = "Off"
                      THEN "blanking:=Off" ELSE "blanking:=On">>
              /\ effective' = IF rec /\ ret = "tick"
                              THEN effective + 1 ELSE effective
              /\ pc' = ReturnTo(ret)
              /\ act' = "none"
              /\ ret' = "none"
         ELSE /\ tickLog' = Append(tickLog, "xset failed")
              /\ pc' = "panic"
              /\ UNCHANGED <<lastPower, state, effective, act, ret>>
    /\ UNCHANGED <<progVars, envVars, help_printed, sample, samples, rec,
                   notifs, polls>>

(* ------------------------------------------------------- the poll loop *)

\* is_window_closed, called by the loop condition of main, line 285
is_window_closed ==
    /\ pc = "is_window_closed"
    /\ \E o \in Outcomes :
         IF ~Failed(o)
         THEN IF StillListed(WmctrlOutput, pid, app_name)
              THEN /\ tickLog' = <<"is_window_closed">>
                                   \o Event(<<>>, <<"wmctrl failed">>, o)
                   /\ pc' = "track"
                   /\ UNCHANGED <<state, act, ret>>
              ELSE /\ state' = state
                   /\ CallActuator("on", "exit", <<"is_window_closed">>
                                   \o Event(<<>>, <<"wmctrl failed">>, o))
         ELSE /\ tickLog' = <<"is_window_closed", "wmctrl failed">>
              /\ pc' = "panic"
              /\ UNCHANGED <<state, act, ret>>
    /\ sample' = "none"
    /\ UNCHANGED <<progVars, envVars, help_printed, lastPower, samples, rec,
                   effective, notifs, polls>>

\* the sample enters the recorded history while there is room for it
Record(b) ==
    /\ sample' = IF b THEN "true" ELSE "false"
    /\ IF Len(samples) < MaxSamples
       THEN /\ samples' = Append(samples, b)
            /\ rec' = TRUE
       ELSE /\ samples' = samples
            /\ rec' = FALSE

\* mutant: the falling edge is not acted on
FullscreenEdge_NoRestore(b, last) ==
    IF b /\ last = "NotFullscreen" THEN "off" ELSE "none"

\* mutant: level-triggered, the stored flag is not consulted
FullscreenEdge_Level(b, last) ==
    IF b THEN "off" ELSE "on"

\* we_are_tracking_fullscreen, lines 218-219 and 225: what the sample asks
\* for given the stored flag: "off", "on" or "none"
FullscreenEdge(b, last) ==
    IF b
    THEN IF last = "NotFullscreen" THEN "off" ELSE "none"
    ELSE IF last = "Fullscreen" THEN "on" ELSE "none"

\* we_are_tracking_audio, lines 234-235 and 241
AudioEdge(b, last) ==
    IF b
    THEN IF last = "Off" THEN "off" ELSE "none"
    ELSE IF last = "On" THEN "on" ELSE "none"

\* mutant: the two branches of the loop body are swapped
Dispatch_Swapped(ta, tf) ==
    IF ta THEN "fullscreen" ELSE IF tf THEN "audio" ELSE "none"

\* mutant: the loop body ignores the flags
Dispatch_AlwaysFullscreen(ta, tf) ==
    "fullscreen"

\* main, lines 286-290: the evaluation the loop body dispatches to
Dispatch(ta, tf) ==
    IF ta THEN "audio" ELSE IF tf THEN "fullscreen" ELSE "none"

\* we_are_tracking_fullscreen and the sleep that ends the iteration
we_are_tracking_fullscreen ==
    /\ pc = "track"
    /\ Dispatch(track_audio, track_fullscreen) = "fullscreen"
    /\ \E o \in Outcomes, out \in XpropOutputs :
         LET log == tickLog \o
                     <<"we_are_tracking_fullscreen", "is_window_fullscreen">>
                     \o Event(<<>>, <<"xprop failed">>, o)
         IN
         IF ~Failed(o)
         THEN LET b == is_window_fullscreen(out)
                  edge == FullscreenEdge(b, state.last_fullscreen_state)
              IN  /\ Record(b)
                  /\ IF edge = "none"
                     THEN /\ tickLog' = log
                          /\ pc' = "is_window_closed"
                          /\ UNCHANGED <<state, act, ret>>
                     ELSE /\ state' = [state EXCEPT !.last_fullscreen_state =
                                 IF edge = "off" THEN "Fullscreen"
                                 ELSE "NotFullscreen"]
                          /\ CallActuator(edge, "tick", log)
         ELSE /\ tickLog' = log
              /\ pc' = "panic"
              /\ UNCHANGED <<state, act, ret, sample, samples, rec>>
    /\ UNCHANGED <<progVars, envVars, help_printed, lastPower, effective,
                   notifs, polls>>

\* we_are_tracking_audio and the sleep that ends the iteration
we_are_tracking_audio ==
    /\ pc = "track"
    /\ Dispatch(track_audio, track_fullscreen) = "audio"
    /\ \E o \in Outcomes, scene \in AudioScenes :
         LET log == tickLog \o <<"we_are_tracking_audio", "is_playing_audio">>
                     \o Event(<<>>, <<"pactl failed">>, o)
         IN
         IF ~Failed(o)
         THEN LET b == is_playing_audio(StreamsText(scene, 1), app_name)
                  edge == AudioEdge(b, state.last_track_audio_state)
              IN  /\ Record(b)
                  /\ IF edge = "none"
                     THEN /\ tickLog' = log
                          /\ pc' = "is_window_closed"
                          /\ UNCHANGED <<state, act, ret>>
                     ELSE /\ state' = [state EXCEPT !.last_track_audio_state =
                                 IF edge = "off" THEN "On" ELSE "Off"]
                          /\ CallActuator(edge, "tick", log)
         ELSE /\ tickLog' = log
              /\ pc' = "panic"
              /\ UNCHANGED <<state, act, ret, sample, samples, rec>>
    /\ UNCHANGED <<progVars, envVars, help_printed, lastPower, effective,
                   notifs, polls>>

\* the steps of the program
Program ==
    \/ main_args
    \/ launch_app
    \/ wait_for_window_to_show_up
    \/ is_window_closed
    \/ we_are_tracking_fullscreen
    \/ we_are_tracking_audio
    \/ notify_send
    \/ xset

\* the steps of the desktop
Environment ==
    \/ WindowOpens
    \/ WindowCloses
    \/ OtherWindowChanges

Next ==
    \/ Program
    \/ Environment

Spec ==
    Init /\ [][Next]_vars

\* the program is never suspended for ever: its next step is always taken
FairSpec ==
    Spec /\ WF_vars(Program)

(* ------------------------------------------------------------ phases *)

Launching ==
    pc \in {"main", "launch"}

WaitingForWindow ==
    pc = "wait"

Monitoring ==
    pc \in {"is_window_closed", "track", "notify", "xset"}

ShuttingDown ==
    pc = "exit"

\* the process status: main returned, or a panic unwound it
ExitCode ==
    IF pc = "exit" THEN 0 ELSE IF pc = "panic" THEN 101 ELSE -1

\* number of occurrences of e in a log
RECURSIVE Count(_, _)
Count(log, e) ==
    IF log = <<>> THEN 0
    ELSE (IF Head(log) = e THEN 1 ELSE 0) + Count(Tail(log), e)

\* number of value changes in a sample sequence, the sequence taken to
\* start from prev
RECURSIVE ChangesFrom(_, _)
ChangesFrom(prev, seq) ==
    IF seq = <<>> THEN 0
    ELSE (IF Head(seq) # prev THEN 1 ELSE 0) + ChangesFrom(Head(seq), Tail(seq))

Changes(seq) ==
    ChangesFrom(FALSE, seq)

\* the stored flag of the active mode, as a sample value
StoredFlag ==
    IF track_audio
    THEN (IF state.last_track_audio_state = "On" THEN "true" ELSE "false")
    ELSE (IF state.last_fullscreen_state = "Fullscreen"
          THEN "true" ELSE "false")

(* ------------------------------------------------------------- claims *)

\* C1: in every run in which the application's main window closes while the
\* program is in Monitoring, the program eventually shuts down: it exits
\* with code 0, screen blanking On and the last power call, if any, xset
\* +dpms.  A run cut short by a failed command (a panic) is not held
\* against the claim.  Checked under FairSpec; violated: with windows 2 and
\* 3 listed the closure check of lines 100-101 never reports the closure.
C1_ClosedWindowShutsDown ==
    (Monitoring /\ win = "closed")
        ~> \/ /\ ShuttingDown
              /\ ExitCode = 0
              /\ state.last_screen_blanking_state = "On"
              /\ lastPower \in {"none", "+dpms"}
           \/ pc = "panic"

\* C2: with no window closure and no failure, the number of tracking
\* actuator calls that changed screen blanking, and the number of
\* notifications, equal the number of value changes in the sequence of
\* samples, the first sample counting as a change iff it is true.
C2_EffectiveEqualsChanges ==
    pc \in {"is_window_closed", "track"} =>
        /\ effective = Changes(samples)
        /\ notifs = Changes(samples)

\* fullscreen samples [false,false,true,true,false]: 2 actuations and 2
\* notifications
C2_Witness ==
    /\ pc = "is_window_closed"
    /\ track_fullscreen
    /\ samples = <<FALSE, FALSE, TRUE, TRUE, FALSE>>
    /\ effective = 2
    /\ notifs = 2

\* C3 as stated: a notification is sent iff screen blanking changes value
\* in the same actuator call, also when notify-send or xset fails: the
\* value changes only in a call that has sent exactly one notification, and
\* a call that has sent its notification ends with the value changed.
C3_NotificationIffChange ==
    [][/\ (state'.last_screen_blanking_state
                # state.last_screen_blanking_state)
            => pc = "xset" /\ Count(tickLog, "notify-send") = 1
       /\ (pc = "xset" /\ pc' # "xset")
            => (state'.last_screen_blanking_state
                    # state.last_screen_blanking_state)
       /\ Count(tickLog', "notify-send") <= 1]_vars

\* C3 amended: every change of screen blanking happens in an actuator call
\* that has sent exactly one notification, no call sends more than one, and
\* a call that has sent its notification ends with the value changed unless
\* its xset command fails, which aborts the process.
C3_NotificationIffChangeUnlessXsetFails ==
    [][/\ (state'.last_screen_blanking_state
                # state.last_screen_blanking_state)
            => pc = "xset" /\ Count(tickLog, "notify-send") = 1
       /\ (pc = "xset" /\ pc' # "xset")
            => \/ state'.last_screen_blanking_state
                    # state.last_screen_blanking_state
               \/ /\ pc' = "panic"
                  /\ tickLog'[Len(tickLog')] = "xset failed"
                  /\ state' = state
       /\ Count(tickLog', "notify-send") <= 1]_vars

\* an xset failure after the notification of the same call went out
C3_Witness ==
    /\ pc = "panic"
    /\ Len(tickLog) >= 2
    /\ tickLog[Len(tickLog)] = "xset failed"
    /\ tickLog[Len(tickLog) - 1] = "notify-send"

\* the screen blanking value changes in this step
BlankingChanges ==
    state'.last_screen_blanking_state # state.last_screen_blanking_state

\* at a tick boundary screen blanking is Off iff the active flag is set
InStep ==
    (state.last_screen_blanking_state = "Off") <=> (StoredFlag = "true")

\* C4 as stated: at every tick boundary in Monitoring screen blanking is
\* Off iff the stored flag of the active mode is set, and the actuator
\* changes screen blanking during Monitoring only on a tick whose sample
\* differs from the stored flag.
C4_BlankingTracksFlag ==
    [][/\ pc' = "is_window_closed" => InStep'
       /\ (pc = "track" /\ pc' = "notify") =>
              sample' \in {"true", "false"} /\ sample' # StoredFlag
       /\ BlankingChanges => ret = "tick" /\ sample # "none"]_vars

\* C4 amended: as C4, except that the tick on which the closure check
\* reports the window closed also changes screen blanking, from Off to On,
\* without any sample (the forced restore).
C4_BlankingTracksFlagOrForced ==
    [][/\ pc' = "is_window_closed" => InStep'
       /\ (pc = "track" /\ pc' = "notify") =>
              sample' \in {"true", "false"} /\ sample' # StoredFlag
       /\ BlankingChanges =>
              \/ ret = "tick" /\ sample # "none"
              \/ /\ ret = "exit"
                 /\ sample = "none"
                 /\ SubSeq(tickLog, 1, 2)
                        = <<"is_window_closed", "turn_on_screen_blanking">>
                 /\ state'.last_screen_blanking_state = "On"]_vars

\* a tick boundary in audio mode with blanking suppressed
C4_Witness ==
    /\ pc = "is_window_closed"
    /\ track_audio
    /\ state.last_track_audio_state = "On"
    /\ state.last_screen_blanking_state = "Off"

\* C5: a tick whose sample equals the stored flag leaves the three flags
\* unchanged and has no side effect: no actuator call, no notification, no
\* power call; the tick's log is the closure check, the evaluation and its
\* probe.
C5_EqualSampleNoEffect ==
    [][(pc = "track" /\ sample' = StoredFlag) =>
          /\ state' = state
          /\ pc' = "is_window_closed"
          /\ act' = "none"
          /\ lastPower' = lastPower
          /\ notifs' = notifs
          /\ effective' = effective
          /\ Len(tickLog') = 3
          /\ Count(tickLog', "turn_off_screen_blanking") = 0
          /\ Count(tickLog', "turn_on_screen_blanking") = 0]_vars

\* a steady tick while fullscreen
C5_Witness ==
    /\ pc = "is_window_closed"
    /\ sample = "true"
    /\ state.last_fullscreen_state = "Fullscreen"
    /\ tickLog = <<"is_window_closed", "we_are_tracking_fullscreen",
                   "is_window_fullscreen">>

\* the closure check ran and found the window closed in this step
ClosureDetected ==
    /\ pc = "is_window_closed"
    /\ pc' \notin {"is_window_closed", "panic"}
    /\ ~StillListed(WmctrlOutput, pid, app_name)

ForcedRestoreLog ==
    <<"is_window_closed", "turn_on_screen_blanking", "notify-send",
      "xset +dpms", "blanking:=On">>

\* C6 as stated: when the closure check detects the closure while screen
\* blanking is Off, one restore call is made and it is effective (one
\* notification, one xset +dpms, blanking On), no tracking evaluation runs
\* on that tick and the loop terminates.
C6_ForcedRestoreEffective ==
    [][/\ (ClosureDetected /\ state.last_screen_blanking_state = "Off") =>
              /\ pc' = "notify" /\ act' = "on" /\ ret' = "exit"
              /\ tickLog' = SubSeq(ForcedRestoreLog, 1, 2)
              /\ state' = state
       /\ (ret = "exit" /\ pc = "notify" /\ pc' # "notify") =>
              /\ pc' = "xset"
              /\ tickLog' = SubSeq(ForcedRestoreLog, 1, 3)
       /\ (ret = "exit" /\ pc = "xset" /\ pc' # "xset") =>
              /\ pc' = "exit"
              /\ tickLog' = ForcedRestoreLog
              /\ state'.last_screen_blanking_state = "On"
              /\ lastPower' = "+dpms"
       /\ pc = "exit" => pc' = "exit"]_vars

\* C6 amended: the restore call is made and is effective when its
\* notify-send and xset commands succeed; when one of them fails the
\* process aborts at once with screen blanking still Off.
C6_ForcedRestoreEffectiveUnlessFailure ==
    [][/\ (ClosureDetected /\ state.last_screen_blanking_state = "Off") =>
              /\ pc' = "notify" /\ act' = "on" /\ ret' = "exit"
              /\ tickLog' = SubSeq(ForcedRestoreLog, 1, 2)
              /\ state' = state
       /\ (ret = "exit" /\ pc = "notify" /\ pc' # "notify") =>
              \/ /\ pc' = "xset"
                 /\ tickLog' = SubSeq(ForcedRestoreLog, 1, 3)
              \/ /\ pc' = "panic"
                 /\ state' = state
                 /\ Count(tickLog', "notify-send") = 0
       /\ (ret = "exit" /\ pc = "xset" /\ pc' # "xset") =>
              \/ /\ pc' = "exit"
                 /\ tickLog' = ForcedRestoreLog
                 /\ state'.last_screen_blanking_state = "On"
                 /\ lastPower' = "+dpms"
              \/ /\ pc' = "panic"
                 /\ state' = state
                 /\ lastPower' = lastPower
       /\ pc = "exit" => pc' = "exit"
       /\ pc = "panic" => pc' = "panic"]_vars

\* shut down from fullscreen: the forced restore was effective
C6_Witness ==
    /\ pc = "exit"
    /\ tickLog = ForcedRestoreLog
    /\ state.last_fullscreen_state = "Fullscreen"
    /\ state.last_screen_blanking_state = "On"
    /\ lastPower = "+dpms"

\* C7: when the closure check detects the closure while screen blanking is
\* On, the restore call is a no-op (no notification, no power call, state
\* unchanged) and the loop terminates.
C7_RestoreNoOpWhenOn ==
    [][/\ (ClosureDetected /\ state.last_screen_blanking_state = "On") =>
              /\ pc' = "exit"
              /\ tickLog' = <<"is_window_closed", "turn_on_screen_blanking">>
              /\ state' = state
              /\ lastPower' = lastPower
              /\ act' = "none"
       /\ pc = "exit" => pc' = "exit"]_vars

\* shut down without any actuation on the last tick
C7_Witness ==
    /\ pc = "exit"
    /\ tickLog = <<"is_window_closed", "turn_on_screen_blanking">>
    /\ state.last_screen_blanking_state = "On"

\* evaluations invoked in the current tick
EvalCount ==
    Count(tickLog, "we_are_tracking_fullscreen")
        + Count(tickLog, "we_are_tracking_audio")

\* the evaluation the startup flag selects
Selected ==
    IF args[2] = "--track-audio" THEN "we_are_tracking_audio"
    ELSE "we_are_tracking_fullscreen"

\* C8: in every tick the closure check comes first; when it reports closed
\* no evaluation is invoked on that tick; when it reports not closed
\* exactly one is, the one the startup flag selects.
C8_ClosureCheckFirst ==
    /\ tickLog # <<>> =>
          /\ tickLog[1] = "is_window_closed"
          /\ Count(tickLog, "is_window_closed") = 1
    /\ (Len(tickLog) >= 2 /\ tickLog[2] = "turn_on_screen_blanking") =>
          EvalCount = 0
    /\ pc = "exit" => EvalCount = 0 /\ Len(tickLog) >= 2
    /\ pc = "track" => tickLog = <<"is_window_closed">>
    /\ \/ pc = "is_window_closed" /\ tickLog # <<>>
       \/ pc \in {"notify", "xset"} /\ ret = "tick"
       => /\ EvalCount = 1
          /\ tickLog[2] = Selected

\* a completed tick in audio mode
C8_Witness ==
    /\ pc = "is_window_closed"
    /\ args[2] = "--track-audio"
    /\ tickLog = <<"is_window_closed", "we_are_tracking_audio",
                   "is_playing_audio">>

\* C9: the two evaluations are never both invoked in a run: in audio mode
\* the fullscreen flag stays NotFullscreen and xprop is never queried, in
\* fullscreen mode the audio flag stays Off and pactl is never queried.
C9_ModesExclusive ==
    /\ ~(track_audio /\ track_fullscreen)
    /\ track_audio =>
          /\ state.last_fullscreen_state = "NotFullscreen"
          /\ Count(tickLog, "we_are_tracking_fullscreen") = 0
          /\ Count(tickLog, "is_window_fullscreen") = 0
    /\ track_fullscreen =>
          /\ state.last_track_audio_state = "Off"
          /\ Count(tickLog, "we_are_tracking_audio") = 0
          /\ Count(tickLog, "is_playing_audio") = 0
    /\ ~(track_audio \/ track_fullscreen) => tickLog = <<>> /\ state = StateNew

\* audio mode suppressing blanking, the fullscreen flag untouched
C9_Witness ==
    /\ track_audio
    /\ pc = "xset"
    /\ act = "off"
    /\ state.last_track_audio_state = "On"
    /\ state.last_fullscreen_state = "NotFullscreen"

\* C10: matching of the application identifier is case-insensitive in the
\* window discovery, the closure check and the audio check: an identifier
\* that differs from the reported text only in letter case matches.
\* Violated: the outputs are lower-cased, the identifier is not.
C10_CaseInsensitiveMatch ==
    (pid # 0 /\ to_lowercase(app_name) = to_lowercase(MainTitle)) =>
        /\ MatchingLines(<<Window(1, pid)>>, pid, app_name) # <<>>
        /\ StillListed(Concat(<<Window(1, pid)>>), pid, app_name)
        /\ is_playing_audio(Stream(3), app_name)

\* C11: the closure check takes the window to be still there iff some
\* single line of the window list matches both the process id and the
\* application identifier: a closure check that reports the window present
\* has seen such a line.  Violated: lines 100-101 search the whole output,
\* so the pid on one line and the identifier on another count as present.
C11_ClosureCheckPerEntry ==
    [][(pc = "is_window_closed" /\ pc' = "track") =>
          \E k \in 1..Len(Listed) :
              LineMatches(to_lowercase(Listed[k]), pid, app_name)]_vars

\* one sink input names the application, is live and is not paused
StreamPlays(i, name) ==
    /\ contains(to_lowercase(StreamAttr(i).name), name)
    /\ StreamAttr(i).live
    /\ ~StreamAttr(i).corked

\* C12: for every set of sink inputs pactl may report, is_playing_audio
\* returns true iff one single sink input names the application, is live
\* and is not corked.  Violated: lines 147 search the whole output, so
\* the application's paused stream next to another program's playing
\* stream counts as playing.
C12_AudioPerStream ==
    (pc = "track" /\ track_audio) =>
        \A scene \in AudioScenes :
            is_playing_audio(StreamsText(scene, 1), app_name)
                <=> \E i \in scene : StreamPlays(i, app_name)

\* the command line has too few arguments or an unknown flag
UsageError ==
    Len(args) < 3 \/ args[2] \notin {"--track-audio", "--track-fullscreen"}

\* C13: for a command line with too few arguments or with a flag other than
\* --track-audio / --track-fullscreen, once main has handled the arguments
\* the help text is on standard output, the process has failed, and nothing
\* was launched, probed or actuated.  Violated: the unknown flag panics at
\* line 271 without printing the help text.
C13_UsageErrorPrintsHelp ==
    (UsageError /\ pc # "main") =>
        /\ pc = "panic"
        /\ ExitCode # 0
        /\ help_printed
        /\ child = <<>>
        /\ pid = 0
        /\ tickLog = <<>>
        /\ lastPower = "none"
        /\ state = StateNew

FailureEvents ==
    {"wmctrl failed", "xprop failed", "pactl failed", "notify-send failed",
     "xset failed"}

\* a command of the tick failed
FailureLogged(log) ==
    \E k \in 1..Len(log) : log[k] \in FailureEvents

\* C14: a failing probe or actuator command of the poll loop terminates
\* the process at once with a non-zero status: the failure is the last
\* thing the tick does, the failing call leaves screen blanking (and the
\* recorded power state) as it was, and once the process has panicked no
\* command is issued and nothing changes any more.
C14_FailureIsFatal ==
    [][/\ FailureLogged(tickLog') =>
              /\ pc' = "panic"
              /\ ExitCode' # 0
              /\ tickLog'[Len(tickLog')] \in FailureEvents
              /\ Cardinality({k \in 1..Len(tickLog') :
                                 tickLog'[k] \in FailureEvents}) = 1
       /\ (FailureLogged(tickLog') /\ ~FailureLogged(tickLog)) =>
              /\ state'.last_screen_blanking_state
                    = state.last_screen_blanking_state
              /\ lastPower' = lastPower
       /\ pc = "panic" =>
              /\ pc' = "panic"
              /\ tickLog' = tickLog
              /\ state' = state
              /\ lastPower' = lastPower
              /\ child' = child]_vars

\* the fullscreen probe failed while screen blanking was suppressed
C14_Witness ==
    /\ pc = "panic"
    /\ tickLog = <<"is_window_closed", "we_are_tracking_fullscreen",
                   "is_window_fullscreen", "xprop failed">>
    /\ state.last_screen_blanking_state = "Off"

\* a listed line matches the process id and, ignoring letter case, the
\* application identifier
EntryMatchesAnyCase(line, p, name) ==
    /\ contains(to_lowercase(line), to_string(p))
    /\ contains(to_lowercase(line), to_lowercase(name))

MatchingWindowListed ==
    \E k \in 1..Len(Listed) : EntryMatchesAnyCase(Listed[k], pid, app_name)

\* the order of the phases: the steps main may take
PhaseStep ==
    \/ pc' = pc
    \/ pc = "main" /\ pc' \in {"launch", "panic"}
    \/ pc = "launch" /\ pc' \in {"wait", "panic"}
    \/ pc = "wait" /\ pc' \in {"is_window_closed", "panic"}
    \/ Monitoring /\ (Monitoring' \/ pc' \in {"exit", "panic"})

\* C15: the driver goes through Launching, WaitingForWindow, Monitoring,
\* ShuttingDown in that order; Monitoring is entered only when a window
\* matching the process id and the identifier is listed; during Launching
\* and WaitingForWindow the state record keeps its start value and no
\* notification or power call is issued; the wait has no timeout, and it
\* does not go on for ever with a matching window listed.  Checked under
\* FairSpec; violated: an identifier with an upper-case letter matches no
\* line of the lower-cased list, the wait never ends.
C15_PhaseOrder ==
    /\ [][PhaseStep]_vars
    /\ [][(pc = "wait" /\ pc' = "is_window_closed")
              => MatchingWindowListed]_vars
    /\ [](Launching \/ WaitingForWindow =>
              /\ state = StateNew
              /\ tickLog = <<>>
              /\ lastPower = "none"
              /\ notifs = 0)
    /\ []<>(~(WaitingForWindow /\ MatchingWindowListed))

\* is_window_closed takes its closed branch (lines 104-107) in this step
ClosureReported ==
    /\ pc = "is_window_closed"
    /\ Len(tickLog') >= 2
    /\ tickLog'[2] = "turn_on_screen_blanking"

\* C16: absent failures the Monitoring loop ends iff a closure check
\* reports the window closed: the program reaches ShuttingDown only on a
\* tick whose closure check reported closed, a report of closed leads
\* nowhere but to ShuttingDown, a closure check that finds the window
\* listed is followed by the evaluation and the next closure check, and
\* the loop is never stuck.
C16_LoopEndsOnlyOnClosure ==
    /\ [][/\ (pc' = "exit" /\ pc # "exit") =>
                 /\ pc = "is_window_closed" \/ ret = "exit"
                 /\ tickLog'[2] = "turn_on_screen_blanking"
                 /\ EvalCount' = 0
          /\ ClosureReported =>
                 /\ ~StillListed(WmctrlOutput, pid, app_name)
                 /\ pc' = "exit" \/ (pc' = "notify" /\ ret' = "exit")
          /\ ret = "exit" => pc' \in {"notify", "xset", "exit", "panic"}
          /\ (pc = "is_window_closed" /\ pc' # pc /\ ~ClosureReported) =>
                 pc' \in {"track", "panic"}
          /\ pc = "track" =>
                 /\ pc' \in {"track", "notify", "is_window_closed", "panic"}
                 /\ pc' = "notify" => ret' = "tick"
          /\ (pc \in {"notify", "xset"} /\ ret = "tick") =>
                 pc' \in {"notify", "xset", "is_window_closed", "panic"}]_vars
    /\ [](Monitoring => ENABLED <<Program>>_vars)

\* the loop has gone past the recorded ticks with the window still open
C16_Witness ==
    /\ pc = "is_window_closed"
    /\ win = "open"
    /\ Len(samples) = MaxSamples
    /\ ~rec

\* the process has terminated, by the end of main or by a panic
Terminated ==
    pc \in {"exit", "panic"}

\* C17: whenever the process has terminated, by window closure or by a
\* fatal failure, display power management is enabled: the last successful
\* power call, if any, is not a disable.
C17_TerminatedWithPowerManagementOn ==
    Terminated => lastPower # "-dpms"

\* the single argument the claim expects for the trailing tokens
TrailingTokens ==
    SubSeq(args, 4, Len(args))

\* C20: the application is launched with the trailing tokens joined by
\* single spaces as exactly one argument when there are trailing tokens,
\* and with no argument at all when there are none.
C20_LaunchArguments ==
    child # <<>> =>
        /\ child[1].program = args[3]
        /\ child[1].argv = IF TrailingTokens # <<>>
                           THEN <<join(TrailingTokens)>>
                           ELSE <<>>

\* the log entries of the three steps of an actuator, in the order of
\* the claim
ActuatorSteps(kind) ==
    IF kind = "off"
    THEN <<"notify-send", "xset -dpms", "blanking:=Off">>
    ELSE <<"notify-send", "xset +dpms", "blanking:=On">>

StepEntries ==
    {"notify-send", "xset -dpms", "xset +dpms", "blanking:=Off",
     "blanking:=On", "notify-send failed", "xset failed"}

\* what the log of a tick may hold after the entry of an actuator call of
\* the given direction, with the program state that goes with it
ActuatorCallShape(kind, tail) ==
    LET steps == ActuatorSteps(kind)
        target == IF kind = "off" THEN "Off" ELSE "On"
        blanking == state.last_screen_blanking_state
    IN  \/ /\ tail = <<>>
           /\ IF pc = "notify"
              THEN act = kind /\ blanking # target
              ELSE blanking = target
        \/ /\ tail = <<steps[1]>>
           /\ pc = "xset"
           /\ act = kind
           /\ blanking # target
        \/ /\ tail = steps
           /\ pc \notin {"notify", "xset"}
           /\ blanking = target
           /\ lastPower = IF kind = "off" THEN "-dpms" ELSE "+dpms"
        \/ /\ tail \in {<<"notify-send failed">>, <<steps[1], "xset failed">>}
           /\ pc = "panic"
           /\ blanking # target

\* C18: an effective turn_off_screen_blanking (turn_on_screen_blanking)
\* sends the notification, then issues xset -dpms (xset +dpms), then stores
\* Off (On); the xset call comes only after a successful notification and
\* the assignment only after both; called with the stored value already
\* Off (On) it does none of the three.
C18_ActuatorStepOrder ==
    /\ \A k \in 1..Len(tickLog) :
          /\ tickLog[k] \in StepEntries =>
                \E j \in 1..(k - 1) :
                    tickLog[j] \in {ActuatorName("off"), ActuatorName("on")}
          /\ \A kind \in {"off", "on"} :
                tickLog[k] = ActuatorName(kind) =>
                    ActuatorCallShape(kind,
                                      SubSeq(tickLog, k + 1, Len(tickLog)))
    /\ pc \in {"notify", "xset"} =>
          \E k \in 1..Len(tickLog) : tickLog[k] = ActuatorName(act)

\* a tick that ended with an effective turn_off_screen_blanking
C18_Witness ==
    /\ pc = "is_window_closed"
    /\ tickLog = <<"is_window_closed", "we_are_tracking_fullscreen",
                   "is_window_fullscreen", "turn_off_screen_blanking",
                   "notify-send", "xset -dpms", "blanking:=Off">>

\* the xset command of this step succeeded
PowerCallSucceeds ==
    /\ pc = "xset"
    /\ pc' \notin {"xset", "panic"}

\* C19: the successful power calls alternate between disable and
\* re-enable, starting with disable, and whenever no actuator call is in
\* progress the stored blanking value is Off exactly when the last
\* successful power call was a disable (On when there was none).
C19_PowerCallsAlternate ==
    /\ [][/\ PowerCallSucceeds =>
                 \/ lastPower \in {"none", "+dpms"} /\ lastPower' = "-dpms"
                 \/ lastPower = "-dpms" /\ lastPower' = "+dpms"
          /\ lastPower' # lastPower => PowerCallSucceeds]_vars
    /\ [](pc \notin {"notify", "xset"} =>
             (state.last_screen_blanking_state = "Off"
                  <=> lastPower = "-dpms"))

\* a third successful power call: disable, re-enable, disable
C19_Witness ==
    /\ pc = "is_window_closed"
    /\ lastPower = "-dpms"
    /\ effective = 3
    /\ state.last_screen_blanking_state = "Off"

====
